---- MODULE Spec2Model ----
(***************************************************************************)
(* Model of deklazon/steam-map-project:                                    *)
(*   - data_processor.py : main(), create_binary_vectors()                 *)
(*   - app.py            : get_games_stream(), stream_games_from_db()      *)
(*                                                                         *)
(* Strings are sequences of atoms.  An atom is a single separator          *)
(* character (" ", ",", "_") or a word (a run of letters).  No word is a   *)
(* prefix of another, so comparing two strings atom by atom gives the      *)
(* order Python gives on the spelled-out strings.                          *)
(***************************************************************************)
EXTENDS Integers, Sequences, FiniteSets, TLC

\* ------------------------------------------------------------------ bounds
MaxRows == 2
MaxId == 2
MaxTagLen == 2
MaxTable == 3
MaxLimit == 3
MaxOffset == 4
\* Page size of the loading loop: stands for limit = 5000 (main.py:30), scaled
\* down so that tables of several pages are within MaxTable.
PageLimit == 2

\* ------------------------------------------------------------- constants
\* data_processor.py:10
EXCLUDED_TAGS ==
    { <<"Early", "_", "Access">>,
      <<"Free", "_", "to", "_", "Play">>,
      <<"Steam", "_", "Machine">>,
      <<"Controller">> }

\* NaN / None of a string column and of a float column.
NullStr == <<"NaN">>
NaN == "NaN"

\* Atoms in code-point order: " " (0x20) < "," (0x2C) < capital letters < "_" (0x5F).
CharOrder == <<" ", ",", "Access", "Action", "Controller", "Early", "RPG", "_">>

CharRank(c) == CHOOSE i \in 1..Len(CharOrder) : CharOrder[i] = c

\* ------------------------------------------------------- string functions
\* Python's < on str.
StrLess(a, b) ==
    \E i \in 1..(Len(b)) :
        /\ \A k \in 1..(i - 1) : k <= Len(a) /\ a[k] = b[k]
        /\ Len(a) >= i - 1
        /\ \/ Len(a) = i - 1
           \/ Len(a) >= i /\ CharRank(a[i]) < CharRank(b[i])

\* str.replace(' ', '_')
ReplaceSpace(s) == [i \in 1..Len(s) |-> IF s[i] = " " THEN "_" ELSE s[i]]

\* str.replace(',_', ','): leftmost non-overlapping occurrences.
RECURSIVE ReplaceCommaUnderscore(_)
ReplaceCommaUnderscore(s) ==
    IF Len(s) = 0 THEN <<>>
    ELSE IF Len(s) >= 2 /\ s[1] = "," /\ s[2] = "_"
         THEN <<",">> \o ReplaceCommaUnderscore(SubSeq(s, 3, Len(s)))
         ELSE <<s[1]>> \o ReplaceCommaUnderscore(Tail(s))

\* games_df['tags'].str.replace(' ', '_').str.replace(',_', ','); NaN stays NaN.
CleanTags(t) ==
    IF t = NullStr THEN NullStr ELSE ReplaceCommaUnderscore(ReplaceSpace(t))

\* x.split(',')
RECURSIVE Split(_)
Split(s) ==
    IF \A i \in 1..Len(s) : s[i] # "," THEN <<s>>
    ELSE LET i == CHOOSE k \in 1..Len(s) :
                      s[k] = "," /\ \A m \in 1..(k - 1) : s[m] # ","
         IN  <<SubSeq(s, 1, i - 1)>> \o Split(SubSeq(s, i + 1, Len(s)))

\* ','.join(tokens)
RECURSIVE Join(_)
Join(toks) ==
    IF Len(toks) = 0 THEN <<>>
    ELSE IF Len(toks) = 1 THEN toks[1]
    ELSE toks[1] \o <<",">> \o Join(Tail(toks))

NotExcluded(tag) == tag \notin EXCLUDED_TAGS

\* lambda x: ','.join([tag for tag in x.split(',') if tag not in EXCLUDED_TAGS])
FilterExcluded(x) == Join(SelectSeq(Split(x), NotExcluded))

Range(s) == {s[i] : i \in 1..Len(s)}

\* ------------------------------------------------- create_binary_vectors
\* str.get_dummies: tags = set(); for each row: tags.update(row.split(sep))
RECURSIVE AllTokens(_)
AllTokens(series) ==
    IF Len(series) = 0 THEN {}
    ELSE Range(Split(series[1])) \cup AllTokens(Tail(series))

\* sorted(S)
RECURSIVE Sorted(_)
Sorted(S) ==
    IF S = {} THEN <<>>
    ELSE LET m == CHOOSE x \in S : \A y \in S \ {x} : StrLess(x, y)
         IN  <<m>> \o Sorted(S \ {m})

\* Tokens in order of first appearance, no sorting.
RECURSIVE FirstSeen(_, _)
FirstSeen(toks, seen) ==
    IF Len(toks) = 0 THEN <<>>
    ELSE IF toks[1] \in seen \/ toks[1] = <<>>
         THEN FirstSeen(Tail(toks), seen)
         ELSE <<toks[1]>> \o FirstSeen(Tail(toks), seen \cup {toks[1]})

RECURSIVE Flatten(_)
Flatten(series) ==
    IF Len(series) = 0 THEN <<>>
    ELSE Split(series[1]) \o Flatten(Tail(series))

VocabFirstSeen(series) == FirstSeen(Flatten(series), {})

\* binary_matrix.columns.tolist(): sorted(tags - {""})
Vocabulary(series) == Sorted(AllTokens(series) \ {<<>>})

\* binary_matrix.values: row i, column j is 1 iff sep + tag_j + sep occurs in
\* sep + row_i + sep, i.e. iff tag_j is one of the row's tokens.
BinaryMatrix(series, vocab) ==
    [i \in 1..Len(series) |->
        [j \in 1..Len(vocab) |->
            IF vocab[j] \in Range(Split(series[i])) THEN 1 ELSE 0]]

\* ------------------------------------------------------------------ state
VARIABLES
    source_ok,           \* whether pd.read_parquet(SOURCE_FILE) succeeds
    source,              \* rows of SOURCE_FILE
    pc,                  \* position of main()
    games_df,
    games_with_tags_df,
    tags_series,
    all_tags_vocab,
    binary_matrix,
    embedding,
    final_df,
    output,              \* contents of TARGET_FILE once written
    writes,              \* number of to_parquet calls
    stages               \* stages of main() completed so far, in order

VARIABLES
    cbv_input,           \* tags_series handed to create_binary_vectors
    cbv_pc,              \* "call" before the call, "returned" after it
    cbv_matrix,          \* binary_matrix.values
    cbv_vocab,           \* binary_matrix.columns.tolist()
    cbv_prev_vocab       \* the vocabulary returned before the rows were permuted

VARIABLES
    table,               \* rows of the games table, in the order the database returns them
    api_pc,              \* "idle" or "streaming"
    limit,               \* query parameter limit: <<>> for None, <<n>> for n
    offset,              \* query parameter offset
    result,              \* rows of the result set not yet fetched
    chunks,              \* strings yielded to the StreamingResponse so far
    first

VARIABLES
    nocoords,            \* rows of the table whose x or y is NULL
    load_pc,             \* position of load_data_from_api()
    all_games,
    load_offset,         \* the local variable offset of load_data_from_api
    load_failed,         \* a request raised RequestException
    load_result,         \* rows of the returned DataFrame
    requests             \* number of requests.get calls so far

loadVars == <<nocoords, load_pc, all_games, load_offset, load_failed, load_result,
              requests>>

cbvVars == <<cbv_input, cbv_pc, cbv_matrix, cbv_vocab, cbv_prev_vocab>>

apiVars == <<table, api_pc, limit, offset, result, chunks, first>>

pipeVars == <<source_ok, source, pc, games_df, games_with_tags_df, tags_series,
              all_tags_vocab, binary_matrix, embedding, final_df, output,
              writes, stages>>

\* Raw tag strings of the source catalog.
RawTagInputs ==
    { NullStr,
      <<>>,
      <<"RPG">>,
      <<"Controller">>,
      <<"Action", ",", " ", "RPG">>,
      <<"RPG", ",", " ", "Early", " ", "Access">>,
      <<"RPG", ",", " ", " ", "Controller">>,
      <<"Early", " ", "Access", " ">> }

\* Coordinates the embedder can return for one row (finite floats).
Points == { <<"0.25", "0.75">>, <<"0.5", "0.5">> }

SeqsUpTo(S, n) == UNION { [1..k -> S] : k \in 0..n }

\* A source catalog: row i has an identifier, a raw tag string and a
\* passthrough column (name) that is different on every row.
Catalogs ==
    { [i \in 1..Len(c) |-> [game_id |-> c[i][1], tags |-> c[i][2], name |-> i]] :
        c \in SeqsUpTo((1..MaxId) \X RawTagInputs, MaxRows) }

PipeInit ==
    /\ source_ok \in BOOLEAN
    /\ source \in Catalogs
    /\ pc = "start"
    /\ games_df = <<>>
    /\ games_with_tags_df = <<>>
    /\ tags_series = <<>>
    /\ all_tags_vocab = <<>>
    /\ binary_matrix = <<>>
    /\ embedding = <<>>
    /\ final_df = <<>>
    /\ output = <<>>
    /\ writes = 0
    /\ stages = <<>>

\* except Exception as e: print(...)
Raise ==
    /\ pc' = "failed"
    /\ UNCHANGED <<writes, output>>

\* games_df = pd.read_parquet(SOURCE_FILE)
ReadParquet ==
    /\ pc = "start"
    /\ \/ /\ source_ok
          /\ games_df' = source
          /\ pc' = "read"
          /\ stages' = Append(stages, "read")
          /\ UNCHANGED <<writes, output>>
       \/ /\ ~source_ok
          /\ Raise
          /\ UNCHANGED <<games_df, stages>>
    /\ UNCHANGED <<source_ok, source, games_with_tags_df, tags_series,
                   all_tags_vocab, binary_matrix, embedding, final_df>>
    /\ UNCHANGED <<cbvVars, apiVars, loadVars>>

HasTags(row) == row.cleaned_tags # NullStr /\ row.cleaned_tags # <<>>

\* games_df['cleaned_tags'] = ...; games_with_tags_df = games_df[notna & != ""];
\* if games_with_tags_df.empty: return
ProcessTags ==
    /\ pc = "read"
    /\ LET df == [i \in 1..Len(games_df) |->
                   [game_id |-> games_df[i].game_id,
                    tags |-> games_df[i].tags,
                    name |-> games_df[i].name,
                    cleaned_tags |-> CleanTags(games_df[i].tags)]]
           tagged == SelectSeq(df, HasTags)
       IN  /\ games_df' = df
           /\ games_with_tags_df' = tagged
           /\ pc' = IF Len(tagged) = 0 THEN "aborted" ELSE "tagged"
           /\ stages' = IF Len(tagged) = 0 THEN stages ELSE Append(stages, "tags")
    /\ UNCHANGED <<source_ok, source, tags_series, all_tags_vocab, binary_matrix,
                   embedding, final_df, output, writes>>
    /\ UNCHANGED <<cbvVars, apiVars, loadVars>>

\* tags_series = ...apply(filter); binary_matrix, all_tags_vocab = create_binary_vectors(tags_series)
Vectorize ==
    /\ pc = "tagged"
    /\ LET ts == [i \in 1..Len(games_with_tags_df) |->
                   FilterExcluded(games_with_tags_df[i].cleaned_tags)]
       IN  /\ tags_series' = ts
           /\ all_tags_vocab' = Vocabulary(ts)
           /\ binary_matrix' = BinaryMatrix(ts, Vocabulary(ts))
    /\ pc' = "vectorized"
    /\ stages' = Append(stages, "vectorize")
    /\ UNCHANGED <<source_ok, source, games_df, games_with_tags_df, embedding,
                   final_df, output, writes>>
    /\ UNCHANGED <<cbvVars, apiVars, loadVars>>

\* normalized_matrix = normalize(binary_matrix, norm='l2', axis=1)
\* sklearn's check_array rejects a matrix with 0 columns (ValueError).
NormalizeMatrix ==
    /\ pc = "vectorized"
    /\ \/ /\ Len(all_tags_vocab) > 0
          /\ pc' = "normalized"
          /\ stages' = Append(stages, "normalize")
          /\ UNCHANGED <<writes, output>>
       \/ /\ Len(all_tags_vocab) = 0
          /\ Raise
          /\ UNCHANGED stages
    /\ UNCHANGED <<source_ok, source, games_df, games_with_tags_df, tags_series,
                   all_tags_vocab, binary_matrix, embedding, final_df>>
    /\ UNCHANGED <<cbvVars, apiVars, loadVars>>

\* embedding = umap_reducer.fit_transform(normalized_matrix): an N x 2 matrix,
\* or an exception of the reduction library.
Embed ==
    /\ pc = "normalized"
    /\ \/ /\ embedding' \in [1..Len(binary_matrix) -> Points]
          /\ pc' = "embedded"
          /\ stages' = Append(stages, "embed")
          /\ UNCHANGED <<writes, output>>
       \/ /\ Raise
          /\ UNCHANGED <<embedding, stages>>
    /\ UNCHANGED <<source_ok, source, games_df, games_with_tags_df, tags_series,
                   all_tags_vocab, binary_matrix, final_df>>
    /\ UNCHANGED <<cbvVars, apiVars, loadVars>>

\* One row of the merge result: the left row with the right row's x and y.
MergedRowHalf(l, r) ==
    [game_id |-> l.game_id, tags |-> l.tags, name |-> l.name,
     cleaned_tags |-> l.cleaned_tags, x |-> r.x, y |-> NaN]

MergedRow(l, r) ==
    [game_id |-> l.game_id, tags |-> l.tags, name |-> l.name,
     cleaned_tags |-> l.cleaned_tags, x |-> r.x, y |-> r.y]

UnmatchedRow(l) ==
    [game_id |-> l.game_id, tags |-> l.tags, name |-> l.name,
     cleaned_tags |-> l.cleaned_tags, x |-> NaN, y |-> NaN]

\* pd.merge(left, right, on='game_id', how='left'): every left row, in order,
\* once per right row with the same key, or once with NaN when there is none.
RECURSIVE LeftMerge(_, _)
LeftMerge(left, right) ==
    IF Len(left) = 0 THEN <<>>
    ELSE LET l == left[1]
             SameKey(r) == r.game_id = l.game_id
             matches == SelectSeq(right, SameKey)
             rows == IF Len(matches) = 0
                     THEN <<UnmatchedRow(l)>>
                     ELSE [k \in 1..Len(matches) |-> MergedRow(l, matches[k])]
         IN  rows \o LeftMerge(Tail(left), right)

FinalTagsRaw(row) == row.tags

\* final_df['tags'] = final_df['cleaned_tags']
FinalTags(row) == row.cleaned_tags

\* games_with_tags_df['x'], ['y'] = embedding columns; final_df = pd.merge(...);
\* final_df['tags'] = final_df['cleaned_tags']; drop(columns=['cleaned_tags'])
Merge ==
    /\ pc = "embedded"
    /\ LET right == [i \in 1..Len(games_with_tags_df) |->
                      [game_id |-> games_with_tags_df[i].game_id,
                       x |-> embedding[i][1],
                       y |-> embedding[i][2]]]
           merged == LeftMerge(games_df, right)
       IN  /\ games_with_tags_df' =
                 [i \in 1..Len(games_with_tags_df) |->
                     [game_id |-> games_with_tags_df[i].game_id,
                      tags |-> games_with_tags_df[i].tags,
                      name |-> games_with_tags_df[i].name,
                      cleaned_tags |-> games_with_tags_df[i].cleaned_tags,
                      x |-> embedding[i][1],
                      y |-> embedding[i][2]]]
           /\ final_df' = [k \in 1..Len(merged) |->
                             [game_id |-> merged[k].game_id,
                              tags |-> FinalTags(merged[k]),
                              name |-> merged[k].name,
                              x |-> merged[k].x,
                              y |-> merged[k].y]]
    /\ pc' = "merged"
    /\ stages' = Append(stages, "merge")
    /\ UNCHANGED <<source_ok, source, games_df, tags_series, all_tags_vocab,
                   binary_matrix, embedding, output, writes>>
    /\ UNCHANGED <<cbvVars, apiVars, loadVars>>

CanWriteAnyway == pc \in {"merged", "failed", "aborted"}

\* to_parquet is reached only by falling through every earlier statement.
CanWrite == pc = "merged"

\* final_df.to_parquet(TARGET_FILE, index=False)
WriteParquet ==
    /\ CanWrite
    /\ output' = final_df
    /\ writes' = writes + 1
    /\ pc' = "done"
    /\ stages' = Append(stages, "write")
    /\ UNCHANGED <<source_ok, source, games_df, games_with_tags_df, tags_series,
                   all_tags_vocab, binary_matrix, embedding, final_df>>
    /\ UNCHANGED <<cbvVars, apiVars, loadVars>>

PipeNext ==
    \/ ReadParquet
    \/ ProcessTags
    \/ Vectorize
    \/ NormalizeMatrix
    \/ Embed
    \/ Merge
    \/ WriteParquet

vars == <<pipeVars, cbvVars, apiVars, loadVars>>

\* ------------------------------------------ create_binary_vectors alone
\* Atoms of the strings handed to create_binary_vectors.
CbvChars == {"Action", "RPG", ","}

CbvIdle ==
    /\ cbv_input = <<>>
    /\ cbv_pc = "idle"
    /\ cbv_matrix = <<>>
    /\ cbv_vocab = <<>>
    /\ cbv_prev_vocab = <<>>

CbvInit ==
    /\ cbv_input \in SeqsUpTo(SeqsUpTo(CbvChars, MaxTagLen), MaxRows)
    /\ cbv_pc = "call"
    /\ cbv_matrix = <<>>
    /\ cbv_vocab = <<>>
    /\ cbv_prev_vocab = <<>>

\* binary_matrix = tags_series.str.get_dummies(sep=',')
\* return binary_matrix.values, binary_matrix.columns.tolist()
CreateBinaryVectors ==
    /\ cbv_pc = "call"
    /\ cbv_vocab' = Vocabulary(cbv_input)
    /\ cbv_matrix' = BinaryMatrix(cbv_input, Vocabulary(cbv_input))
    /\ cbv_pc' = "returned"
    /\ UNCHANGED <<cbv_input, cbv_prev_vocab>>
    /\ UNCHANGED <<pipeVars, apiVars, loadVars>>

\* The caller runs the function again on the same rows in another order.
PermuteRows ==
    /\ cbv_pc = "returned"
    /\ \E i, j \in 1..Len(cbv_input) :
          /\ i < j
          /\ cbv_input' = [cbv_input EXCEPT ![i] = cbv_input[j], ![j] = cbv_input[i]]
    /\ cbv_prev_vocab' = <<cbv_vocab>>
    /\ cbv_pc' = "call"
    /\ UNCHANGED <<cbv_matrix, cbv_vocab>>
    /\ UNCHANGED <<pipeVars, apiVars, loadVars>>

CbvNext ==
    \/ CreateBinaryVectors
    \/ PermuteRows

\* ------------------------------------------------------------- app.py
Min(a, b) == IF a < b THEN a ELSE b

Max(a, b) == IF a > b THEN a ELSE b

NoLimit == <<>>

\* The table: T rows, row i identified by i.
Tables == { [i \in 1..t |-> i] : t \in 0..MaxTable }

ApiIdle ==
    /\ table = <<>>
    /\ api_pc = "off"
    /\ limit = NoLimit
    /\ offset = 0
    /\ result = <<>>
    /\ chunks = <<>>
    /\ first = TRUE

ApiInit ==
    /\ table \in Tables
    /\ api_pc = "idle"
    /\ limit = NoLimit
    /\ offset = 0
    /\ result = <<>>
    /\ chunks = <<>>
    /\ first = TRUE

\* Python truth value of the limit parameter: None and 0 are false.
Truthy(l) == l # NoLimit /\ l[1] # 0

\* SELECT * FROM games [LIMIT :limit] OFFSET :offset
Select(l, o) ==
    IF Truthy(l)
    THEN SubSeq(table, o + 1, Min(o + l[1], Len(table)))
    ELSE SubSeq(table, o + 1, Len(table))

\* json.dumps(row_dict)
JsonDumps(row) == ToString(row)

\* GET /api/v1/games?limit=l&offset=o: get_games_stream hands the generator to
\* StreamingResponse; the generator builds and executes the query and yields '['.
StartStream(l, o) ==
    /\ api_pc = "idle"
    /\ limit' = l
    /\ offset' = o
    /\ result' = Select(l, o)
    /\ chunks' = <<"[">>
    /\ first' = TRUE
    /\ api_pc' = "streaming"
    /\ UNCHANGED table

\* A request of any client.
GetGamesStream ==
    /\ \E l \in {NoLimit} \cup { <<n>> : n \in 0..MaxLimit }, o \in 0..MaxOffset :
          StartStream(l, o)
    /\ UNCHANGED <<pipeVars, cbvVars, loadVars>>

\* for row in result: if not first: yield ','; yield json.dumps(row_dict); first = False
StreamRow ==
    /\ api_pc = "streaming"
    /\ result # <<>>
    /\ chunks' = chunks \o (IF first THEN <<>> ELSE <<",">>) \o <<JsonDumps(Head(result))>>
    /\ first' = FALSE
    /\ result' = Tail(result)
    /\ UNCHANGED <<table, api_pc, limit, offset>>
    /\ UNCHANGED <<pipeVars, cbvVars, loadVars>>

\* yield ']'
StreamEnd ==
    /\ api_pc = "streaming"
    /\ result = <<>>
    /\ chunks' = Append(chunks, "]")
    /\ api_pc' = "idle"
    /\ UNCHANGED <<table, limit, offset, result, first>>
    /\ UNCHANGED <<pipeVars, cbvVars, loadVars>>

ApiNext ==
    \/ GetGamesStream
    \/ StreamRow
    \/ StreamEnd

\* ------------------------------------------- main.py: load_data_from_api
LoadIdle ==
    /\ nocoords = {}
    /\ load_pc = "off"
    /\ all_games = <<>>
    /\ load_offset = 0
    /\ load_failed = FALSE
    /\ load_result = <<>>
    /\ requests = 0

\* all_games = []; offset = 0; limit = 5000
LoadInit ==
    /\ nocoords \in SUBSET (1..Len(table))
    /\ load_pc = "loop"
    /\ all_games = <<>>
    /\ load_offset = 0
    /\ load_failed = FALSE
    /\ load_result = <<>>
    /\ requests = 0

\* json.loads of one record: the row that json.dumps wrote.
JsonLoads(str) == CHOOSE row \in 1..Len(table) : JsonDumps(row) = str

IsRecord(chunk) == chunk \notin {"[", ",", "]"}

\* response.json(): the list of the records of the streamed array.
ResponseJson(cs) ==
    LET recs == SelectSeq(cs, IsRecord)
    IN  [k \in 1..Len(recs) |-> JsonLoads(recs[k])]

NextOffsetSkip(o, l) == o + l + 1

\* offset += limit
NextOffset(o, l) == o + l

\* response = requests.get(f"{API_BASE_URL}?limit={limit}&offset={offset}", timeout=60)
LoadRequest ==
    /\ load_pc = "loop"
    /\ StartStream(<<PageLimit>>, load_offset)
    /\ load_pc' = "waiting"
    /\ requests' = requests + 1
    /\ UNCHANGED <<nocoords, all_games, load_offset, load_failed, load_result>>
    /\ UNCHANGED <<pipeVars, cbvVars>>

\* requests.get, raise_for_status or response.json() raises RequestException
\* (connection error, timeout, error status, broken body):
\* st.error(...); return pd.DataFrame()
LoadFail ==
    /\ load_pc = "waiting"
    /\ load_failed' = TRUE
    /\ load_result' = <<>>
    /\ load_pc' = "returned"
    /\ UNCHANGED <<nocoords, all_games, load_offset, requests>>
    /\ UNCHANGED <<pipeVars, cbvVars, apiVars>>

\* data = response.json(); if not data: break; all_games.extend(data); offset += limit
LoadPage ==
    /\ load_pc = "waiting"
    /\ api_pc = "idle"
    /\ LET data == ResponseJson(chunks)
       IN  \/ /\ Len(data) = 0
              /\ load_pc' = "collected"
              /\ UNCHANGED <<all_games, load_offset>>
           \/ /\ Len(data) > 0
              /\ all_games' = all_games \o data
              /\ load_offset' = NextOffset(load_offset, PageLimit)
              /\ load_pc' = "loop"
    /\ UNCHANGED <<nocoords, load_failed, load_result, requests>>
    /\ UNCHANGED <<pipeVars, cbvVars, apiVars>>

HasCoords(row) == row \notin nocoords

\* if not all_games: return pd.DataFrame()
\* df = pd.DataFrame(all_games); df.dropna(subset=['x', 'y'], inplace=True); return df
LoadReturn ==
    /\ load_pc = "collected"
    /\ load_result' = SelectSeq(all_games, HasCoords)
    /\ load_pc' = "returned"
    /\ UNCHANGED <<nocoords, all_games, load_offset, load_failed, requests>>
    /\ UNCHANGED <<pipeVars, cbvVars, apiVars>>

LoadNext ==
    \/ LoadRequest
    \/ StreamRow
    \/ StreamEnd
    \/ LoadFail
    \/ LoadPage
    \/ LoadReturn

\* ------------------------------------------------------ specifications
PipeIdle ==
    /\ source_ok = FALSE
    /\ source = <<>>
    /\ pc = "off"
    /\ games_df = <<>>
    /\ games_with_tags_df = <<>>
    /\ tags_series = <<>>
    /\ all_tags_vocab = <<>>
    /\ binary_matrix = <<>>
    /\ embedding = <<>>
    /\ final_df = <<>>
    /\ output = <<>>
    /\ writes = 0
    /\ stages = <<>>

\* One run of data_processor.main().
Init == PipeInit /\ CbvIdle /\ ApiIdle /\ LoadIdle

Next == PipeNext

Spec == Init /\ [][Next]_vars

\* create_binary_vectors on its own.
InitVocab == PipeIdle /\ CbvInit /\ ApiIdle /\ LoadIdle

SpecVocab == InitVocab /\ [][CbvNext]_vars

\* The API serving a table.
InitApi == PipeIdle /\ CbvIdle /\ ApiInit /\ LoadIdle

SpecApi == InitApi /\ [][ApiNext]_vars

\* load_data_from_api() paging through the API.  The loop is sequential code
\* and every request ends in a response or in an exception (timeout=60), so
\* a step that can be taken is taken.
InitLoad == PipeIdle /\ CbvIdle /\ ApiInit /\ LoadInit

SpecLoad == InitLoad /\ [][LoadNext]_vars /\ WF_vars(LoadNext)

\* ======================================================== claims: main()
Written == writes > 0

AllStages == <<"read", "tags", "vectorize", "normalize", "embed", "merge", "write">>

\* The tags a raw tag string is left with once cleaned and filtered.
TagsLeft(raw) ==
    IF raw = NullStr THEN {}
    ELSE Range(Split(FilterExcluded(CleanTags(raw)))) \ {<<>>}

\* A token with the underscores that stand for surrounding or repeated
\* spaces removed: none at either end, none doubled.
RECURSIVE Canon(_)
Canon(tok) ==
    IF Len(tok) = 0 THEN <<>>
    ELSE IF tok[1] = "_" THEN Canon(Tail(tok))
    ELSE IF tok[Len(tok)] = "_" THEN Canon(SubSeq(tok, 1, Len(tok) - 1))
    ELSE IF \E i \in 1..(Len(tok) - 1) : tok[i] = "_" /\ tok[i + 1] = "_"
         THEN LET i == CHOOSE k \in 1..(Len(tok) - 1) : tok[k] = "_" /\ tok[k + 1] = "_"
              IN  Canon(SubSeq(tok, 1, i) \o SubSeq(tok, i + 2, Len(tok)))
         ELSE tok

\* C1: whenever an output is written, it has as many rows as the source and
\* every source row (identified by its passthrough column) occurs exactly once.
C1_RowsPreserved ==
    Written =>
        /\ Len(output) = Len(source)
        /\ \A i \in 1..Len(source) :
              Cardinality({j \in 1..Len(output) : output[j].name = i}) = 1

C3_NoExcludedInVocabulary ==
    \A k \in 1..Len(all_tags_vocab) : Canon(all_tags_vocab[k]) \notin EXCLUDED_TAGS

\* C4: when the source is readable and no record has a tag left after
\* filtering, main() stops before vectorization and writes nothing.
C4_FailFastOnEmptyVocabulary ==
    (source_ok /\ \A i \in 1..Len(source) : TagsLeft(source[i].tags) = {}) =>
        /\ pc \notin {"vectorized", "normalized", "embedded", "merged", "done"}
        /\ \A k \in 1..Len(stages) : stages[k] # "vectorize"
        /\ ~Written

\* C5: a record with no tag left after cleaning and filtering is not in the
\* frame that is vectorized and embedded, and has null x and y in the output;
\* only records with a tag left have coordinates.
C5_EmptyCleanedNotEncoded ==
    /\ pc \in {"vectorized", "normalized", "embedded", "merged", "done"} =>
          \A i \in 1..Len(games_with_tags_df) :
              TagsLeft(games_with_tags_df[i].tags) # {}
    /\ Written =>
          \A j \in 1..Len(output) :
              TagsLeft(source[output[j].name].tags) = {} =>
                  output[j].x = NaN /\ output[j].y = NaN

\* C6: in a written output every row has x and y both null or both non-null.
C6_CoordinatesPaired ==
    Written =>
        \A j \in 1..Len(output) : (output[j].x = NaN) <=> (output[j].y = NaN)

C6_Witness ==
    /\ Written
    /\ \E j \in 1..Len(output) : output[j].x = NaN /\ output[j].y = NaN
    /\ \E j \in 1..Len(output) : output[j].x # NaN /\ output[j].y # NaN

\* C8: the output is written at most once, only as the last of all stages
\* and from the complete merge result; a run that failed or aborted has
\* written nothing and merged nothing; a run that finished has written an
\* output that holds every source row.
C8_WriteOnlyAfterAllStages ==
    /\ writes <= 1
    /\ Written =>
          /\ writes = 1
          /\ source_ok
          /\ stages = AllStages
          /\ output = final_df
    /\ pc \in {"failed", "aborted"} => ~Written /\ final_df = <<>>
    /\ pc = "done" =>
          /\ Written
          /\ \A i \in 1..Len(source) : \E j \in 1..Len(output) : output[j].name = i

C8_Witness ==
    /\ pc = "done"
    /\ writes = 1
    /\ Len(source) = MaxRows
    /\ Len(output) >= Len(source)

\* C10: in a written output, a row whose raw tag string is null or empty has
\* null x and null y.
C10_UntaggedRowsHaveNoCoordinates ==
    Written =>
        \A j \in 1..Len(output) :
            source[output[j].name].tags \in {NullStr, <<>>} =>
                output[j].x = NaN /\ output[j].y = NaN

\* ===================================== claims: create_binary_vectors
\* C9: the returned vocabulary is strictly increasing in string order (so
\* sorted and duplicate-free), holds exactly the non-empty tags of the input,
\* and is the one returned for the same rows in the order before a permutation.
C9_VocabularySortedAndOrderIndependent ==
    cbv_pc = "returned" =>
        /\ \A k \in 1..(Len(cbv_vocab) - 1) : StrLess(cbv_vocab[k], cbv_vocab[k + 1])
        /\ \A a, b \in 1..Len(cbv_vocab) : a # b => cbv_vocab[a] # cbv_vocab[b]
        /\ Range(cbv_vocab) =
              {tok \in UNION {Range(Split(cbv_input[i])) : i \in 1..Len(cbv_input)} :
                  tok # <<>>}
        /\ cbv_prev_vocab # <<>> => cbv_prev_vocab[1] = cbv_vocab

C9_Witness ==
    /\ cbv_pc = "returned"
    /\ cbv_prev_vocab # <<>>
    /\ Len(cbv_vocab) >= 2
    /\ Len(cbv_input) >= 2
    /\ StrLess(cbv_input[2], cbv_input[1])

\* ============================================ claims: GET /api/v1/games
\* Number of records in a streamed JSON array.
Records(cs) == Cardinality({k \in 1..Len(cs) : cs[k] \notin {"[", ",", "]"}})

\* C7: a finished response to limit=L, offset=O on a table of T rows holds
\* min(L, max(0, T-O)) records.
C7_PageSize ==
    (api_pc = "idle" /\ chunks # <<>> /\ limit # NoLimit) =>
        Records(chunks) = Min(limit[1], Max(0, Len(table) - offset))

\* ========================================== claims: load_data_from_api
\* Number of pages of PageLimit rows that hold t rows.
Pages(t) == (t + PageLimit - 1) \div PageLimit

C11_Safe ==
    /\ requests <= Pages(Len(table)) + 1
    /\ (load_pc \in {"collected", "returned"} /\ ~load_failed) =>
          /\ all_games = table
          /\ requests = Pages(Len(table)) + 1
    /\ (load_pc = "returned" /\ load_failed) => load_result = <<>>

\* C11: the paging loop makes at most ceil(T / limit) + 1 requests and
\* returns; when no request failed it has collected the rows of the table,
\* each once and in table order; when a request failed it returns an empty
\* result.
C11_PagingTerminatesAndCollectsAll ==
    /\ []C11_Safe
    /\ <>(load_pc = "returned")

C11_Witness ==
    /\ load_pc = "returned"
    /\ ~load_failed
    /\ Len(table) > PageLimit
    /\ all_games = table
    /\ requests >= 3

====
